---- MODULE Spec2Model ----
(***************************************************************************)
(* Model of the Stock_trader backtesting scripts: new_app.py,              *)
(* Miscellaneous/app.py and Miscellaneous/app1.py.                         *)
(*                                                                         *)
(* The price table is a pandas DataFrame, modelled as a function from the  *)
(* names of the columns present to sequences (1-based; bar i of the model  *)
(* is index i-1 of the source).  Numbers:                                  *)
(*   - prices are positive integers;                                       *)
(*   - rolling means are exact rationals [nan, num, den];                  *)
(*   - rolling standard deviations are exact: the record [nan, num, den]   *)
(*     in the STD column stands for sqrt(num/den);                         *)
(*   - band values are kept symbolically (mean + sg * k * sqrt(var)) and   *)
(*     compared with prices exactly;                                       *)
(*   - log returns, compounded returns and capital are fixed point with    *)
(*     three decimals, [nan, v] with v in thousandths;                     *)
(*   - growth values are exact normalised rationals.                       *)
(* NaN is the record with nan = TRUE; every comparison with NaN is false.  *)
(***************************************************************************)
EXTENDS Integers, Sequences, FiniteSets, TLC

\* ---- bounds of the model ------------------------------------------------
MaxBars == 3
MaxPrice == 2
MaxWindow == 3

VARIABLES
    app,              \* which script runs: "new_app", "app" or "app1"
    cow,              \* pandas copy-on-write mode (chained assignment is lost)
    driver,           \* "main": the script's main(); "direct": the functions called with free arguments
    strategy,         \* selected strategy name
    investment_style, \* selected style name (main)
    initial_capital,  \* initial capital / amount
    data,             \* the DataFrame: column name -> sequence
    params,           \* record returned by adjust_strategy_parameters, or NoParams
    used,             \* the arguments the indicator function was called with
    pc,               \* position in the pipeline
    result            \* outcome of the last call

vars == <<app, cow, driver, strategy, investment_style, initial_capital,
          data, params, used, pc, result>>

\* ---- numbers --------------------------------------------------------------
Abs(x) == IF x < 0 THEN 0 - x ELSE x

Sign(x) == IF x < 0 THEN 0 - 1 ELSE IF x = 0 THEN 0 ELSE 1

\* integer quotient truncated toward zero, b # 0
IDiv(a, b) == Sign(a) * Sign(b) * (Abs(a) \div Abs(b))

RECURSIVE GCD(_, _)
GCD(a, b) == IF b = 0 THEN a ELSE GCD(b, a % b)

\* exact rational num/den in lowest terms with a positive denominator
Q(num, den) ==
    LET g == GCD(Abs(num), Abs(den))
        s == Sign(den)
    IN  [nan |-> FALSE, num |-> s * (num \div g), den |-> s * (den \div g)]

NaNQ == [nan |-> TRUE, num |-> 0, den |-> 1]

\* fixed point with three decimals
M(v) == [nan |-> FALSE, v |-> v]

NaNM == [nan |-> TRUE, v |-> 0]

NaNBand == [nan |-> TRUE, mnum |-> 0, mden |-> 1, vnum |-> 0, vden |-> 1,
            knum |-> 0, kden |-> 1, sg |-> 1]

\* sum over k >= 0 of t_k / (2k+1), t_0 = z, t_(k+1) = t_k * z^2, scale 10^4
RECURSIVE AtanhSeries(_, _, _, _)
AtanhSeries(t, z2, k, n) ==
    IF k = n THEN 0
    ELSE (t \div (2 * k + 1)) + AtanhSeries((t * z2) \div 10000, z2, k + 1, n)

\* np.log(p / q) for positive p, q, in thousandths:
\* ln(p/q) = 2 * atanh((p - q) / (p + q))
NpLog(p, q) ==
    LET hi == IF p >= q THEN p ELSE q
        lo == IF p >= q THEN q ELSE p
        z  == (10000 * (hi - lo)) \div (hi + lo)
        z2 == (z * z) \div 10000
        ln == (2 * AtanhSeries(z, z2, 0, 12) + 5) \div 10
    IN  IF p >= q THEN ln ELSE 0 - ln

\* ---- pandas ---------------------------------------------------------------
RECURSIVE Sum(_, _, _)
Sum(col, lo, hi) == IF lo > hi THEN 0 ELSE col[lo] + Sum(col, lo + 1, hi)

RECURSIVE SumSq(_, _, _)
SumSq(col, lo, hi) == IF lo > hi THEN 0 ELSE col[lo] * col[lo] + SumSq(col, lo + 1, hi)

\* variant with min_periods=1: the mean of the bars available so far
RollingMean_Partial(col, window) ==
    [i \in 1..Len(col) |->
        IF window >= 1
        THEN LET lo == IF i >= window THEN i - window + 1 ELSE 1
             IN  [nan |-> FALSE, num |-> Sum(col, lo, i), den |-> i - lo + 1]
        ELSE NaNQ]

\* Series.rolling(window).mean(): NaN until the window is full; window 0 gives NaN
RollingMean(col, window) ==
    [i \in 1..Len(col) |->
        IF window >= 1 /\ i >= window
        THEN [nan |-> FALSE, num |-> Sum(col, i - window + 1, i), den |-> window]
        ELSE NaNQ]

\* Series.rolling(window).std(): sample variance (ddof = 1), NaN for window < 2;
\* the entry stands for sqrt(num/den)
RollingStd(col, window) ==
    [i \in 1..Len(col) |->
        IF window >= 2 /\ i >= window
        THEN LET S  == Sum(col, i - window + 1, i)
                 S2 == SumSq(col, i - window + 1, i)
             IN  [nan |-> FALSE, num |-> window * S2 - S * S,
                  den |-> window * (window - 1)]
        ELSE NaNQ]

\* data['SMA'] + sg * (no_of_std * data['STD']), element by element
BandCol(sma, std, k, sg) ==
    [i \in 1..Len(sma) |->
        IF sma[i].nan \/ std[i].nan THEN NaNBand
        ELSE [nan |-> FALSE, mnum |-> sma[i].num, mden |-> sma[i].den,
              vnum |-> std[i].num, vden |-> std[i].den,
              knum |-> k.num, kden |-> k.den, sg |-> sg]]

\* sign of price - band for a defined band, k >= 0:
\* D = price - mean, T = sg * k * sqrt(var); D^2 and T^2 compared by cross multiplication
CmpBand(price, b) ==
    LET dn == price * b.mden - b.mnum
        L  == dn * dn * b.kden * b.kden * b.vden
        R  == b.knum * b.knum * b.vnum * b.mden * b.mden
    IN  IF b.sg = 1
        THEN IF dn > 0 THEN Sign(L - R)
             ELSE IF dn = 0 /\ R = 0 THEN 0 ELSE 0 - 1
        ELSE IF dn < 0 THEN Sign(R - L)
             ELSE IF dn = 0 /\ R = 0 THEN 0 ELSE 1

LtBand(price, b) == ~b.nan /\ CmpBand(price, b) < 0

GtBand(price, b) == ~b.nan /\ CmpBand(price, b) > 0

\* comparisons of two rolling means
GtQ(a, b) == ~a.nan /\ ~b.nan /\ a.num * b.den > b.num * a.den

LtQ(a, b) == ~a.nan /\ ~b.nan /\ a.num * b.den < b.num * a.den

\* data[c] = v
SetCol(d, c, v) == [x \in (DOMAIN d) \cup {c} |-> IF x = c THEN v ELSE d[x]]

\* the price column each script reads
PriceCol(a) == IF a = "new_app" THEN "Close" ELSE "Adj Close"

NBars(d, a) == Len(d[PriceCol(a)])

\* ---- the functions of the scripts -----------------------------------------
\* defaults of calculate_bollinger_bands(data, window=20, no_of_std=2)
DefaultWindow == 20

DefaultNoOfStd == [num |-> 2, den |-> 1]

\* defaults of calculate_sma(data, short_window=50, long_window=200)
DefaultShortWindow == 50

DefaultLongWindow == 200

\* calculate_bollinger_bands: Series.rolling raises ValueError for a negative
\* window before any column is assigned
calculate_bollinger_bands(d, a, window, no_of_std) ==
    IF window < 0 THEN [data |-> d, exc |-> "ValueError"]
    ELSE LET sma == RollingMean(d[PriceCol(a)], window)
             std == RollingStd(d[PriceCol(a)], window)
             d1  == SetCol(d, "SMA", sma)
             d2  == SetCol(d1, "STD", std)
             d3  == SetCol(d2, "Upper Band", BandCol(sma, std, no_of_std, 1))
             d4  == SetCol(d3, "Lower Band", BandCol(sma, std, no_of_std, 0 - 1))
         IN  [data |-> d4, exc |-> "none"]

\* calculate_sma: the short mean is assigned before the long one is computed
calculate_sma(d, a, short_window, long_window) ==
    IF short_window < 0 THEN [data |-> d, exc |-> "ValueError"]
    ELSE LET d1 == SetCol(d, "SMA_Short", RollingMean(d[PriceCol(a)], short_window))
         IN  IF long_window < 0 THEN [data |-> d1, exc |-> "ValueError"]
             ELSE [data |-> SetCol(d1, "SMA_Long", RollingMean(d[PriceCol(a)], long_window)),
                   exc |-> "none"]

\* variant with a non-strict comparison: a price on the lower band buys
BuyMaskBollinger_NonStrict(d, a, i) ==
    ~d["Lower Band"][i].nan /\ CmpBand(d[PriceCol(a)][i], d["Lower Band"][i]) <= 0

\* the boolean masks of the two strategies
BuyMaskBollinger(d, a, i) == LtBand(d[PriceCol(a)][i], d["Lower Band"][i])

SellMaskBollinger(d, a, i) == GtBand(d[PriceCol(a)][i], d["Upper Band"][i])

BuyMaskSma(d, i) == GtQ(d["SMA_Short"][i], d["SMA_Long"][i])

SellMaskSma(d, i) == LtQ(d["SMA_Short"][i], d["SMA_Long"][i])

\* new_app.py assigns through data['Signal'][mask] = v: under copy-on-write the
\* assignment goes to a temporary and the column keeps its zeros
ChainedLost(a, c) == a = "new_app" /\ c

\* apply_bollinger_strategy: Signal = 0, then 1 where the price is below the
\* lower band, then -1 where it is above the upper band
apply_bollinger_strategy(d, a, c) ==
    LET n    == NBars(d, a)
        sig0 == [i \in 1..n |-> 0]
        sig1 == [i \in 1..n |-> IF BuyMaskBollinger(d, a, i) THEN 1 ELSE sig0[i]]
        sig2 == [i \in 1..n |-> IF SellMaskBollinger(d, a, i) THEN 0 - 1 ELSE sig1[i]]
    IN  SetCol(d, "Signal", IF ChainedLost(a, c) THEN sig0 ELSE sig2)

\* apply_sma_strategy: Signal = 0, then 1 where short > long, then -1 where short < long
apply_sma_strategy(d, a, c) ==
    LET n    == NBars(d, a)
        sig0 == [i \in 1..n |-> 0]
        sig1 == [i \in 1..n |-> IF BuyMaskSma(d, i) THEN 1 ELSE sig0[i]]
        sig2 == [i \in 1..n |-> IF SellMaskSma(d, i) THEN 0 - 1 ELSE sig1[i]]
    IN  SetCol(d, "Signal", IF ChainedLost(a, c) THEN sig0 ELSE sig2)

NoParams == [bollinger_window |-> 0, bollinger_std |-> [num |-> 0, den |-> 1],
             sma_short |-> 0, sma_long |-> 0]

\* variant whose final return is the Aggressive record
adjust_strategy_parameters_WrongDefault(style) ==
    IF style = "Moderate"
    THEN [bollinger_window |-> 20, bollinger_std |-> [num |-> 2, den |-> 1],
          sma_short |-> 50, sma_long |-> 200]
    ELSE IF style = "Passive"
    THEN [bollinger_window |-> 30, bollinger_std |-> [num |-> 5, den |-> 2],
          sma_short |-> 100, sma_long |-> 300]
    ELSE [bollinger_window |-> 10, bollinger_std |-> [num |-> 3, den |-> 2],
          sma_short |-> 20, sma_long |-> 50]

\* adjust_strategy_parameters: three named records and a final default return
adjust_strategy_parameters(style) ==
    IF style = "Aggressive"
    THEN [bollinger_window |-> 10, bollinger_std |-> [num |-> 3, den |-> 2],
          sma_short |-> 20, sma_long |-> 50]
    ELSE IF style = "Moderate"
    THEN [bollinger_window |-> 20, bollinger_std |-> [num |-> 2, den |-> 1],
          sma_short |-> 50, sma_long |-> 200]
    ELSE IF style = "Passive"
    THEN [bollinger_window |-> 30, bollinger_std |-> [num |-> 5, den |-> 2],
          sma_short |-> 100, sma_long |-> 300]
    ELSE [bollinger_window |-> 20, bollinger_std |-> [num |-> 2, den |-> 1],
          sma_short |-> 50, sma_long |-> 200]

\* ---- return simulation (app.py, app1.py) ----------------------------------
\* np.log(data['Adj Close'] / data['Adj Close'].shift(1)): NaN at the first bar
ReturnsCol(price) ==
    [i \in 1..Len(price) |-> IF i = 1 THEN NaNM ELSE M(NpLog(price[i], price[i - 1]))]

\* variant without the one-bar lag: the position of a bar is its own signal
PositionCol_NoLag(signal) ==
    [i \in 1..Len(signal) |-> signal[i]]

\* data['Signal'].shift(1).fillna(0)
PositionCol(signal) ==
    [i \in 1..Len(signal) |-> IF i = 1 THEN 0 ELSE signal[i - 1]]

\* data['Position'] * data['Returns']: NaN wherever the return is NaN
StrategyReturnsCol(position, returns) ==
    [i \in 1..Len(returns) |->
        IF returns[i].nan THEN NaNM ELSE M(position[i] * returns[i].v)]

\* running product of the entries before i that are not NaN
RECURSIVE ProdBefore(_, _)
ProdBefore(f, i) ==
    IF i = 0 THEN 1000
    ELSE IF f[i].nan THEN ProdBefore(f, i - 1)
    ELSE IDiv(ProdBefore(f, i - 1) * f[i].v, 1000)

\* (data['Strategy_Returns'] + 1).cumprod(): pandas skips NaN entries in the
\* running product and leaves NaN at their positions
CumprodCol(sr) ==
    LET f == [i \in 1..Len(sr) |-> IF sr[i].nan THEN NaNM ELSE M(sr[i].v + 1000)]
    IN  [i \in 1..Len(sr) |-> IF f[i].nan THEN NaNM ELSE M(ProdBefore(f, i))]

\* initial_capital * data['Cumulative_Strategy_Returns']
CapitalCol(ic, cum) ==
    [i \in 1..Len(cum) |-> IF cum[i].nan THEN NaNM ELSE M(ic * cum[i].v)]

\* (final_capital - initial_capital) / initial_capital * 100 on numpy floats:
\* a zero divisor gives NaN here (the numerator is 0 or NaN), never an exception
CumulativeRoi(final, ic) ==
    IF final.nan THEN NaNM
    ELSE IF ic = 0 THEN NaNM
    ELSE M(IDiv(final.v - ic * 1000, ic) * 100)

\* visualize_interactive of app.py / app1.py up to the ROI; the five columns are
\* assigned before .iloc[-1] raises IndexError on an empty table
visualize_interactive(d, a, ic) ==
    LET price == d[PriceCol(a)]
        ret   == ReturnsCol(price)
        d1    == SetCol(d, "Returns", ret)
        pos   == PositionCol(d1["Signal"])
        d2    == SetCol(d1, "Position", pos)
        sr    == StrategyReturnsCol(pos, ret)
        d3    == SetCol(d2, "Strategy_Returns", sr)
        cum   == CumprodCol(sr)
        d4    == SetCol(d3, "Cumulative_Strategy_Returns", cum)
        cap   == CapitalCol(ic, cum)
        d5    == SetCol(d4, "Capital", cap)
    IN  IF Len(price) = 0
        THEN [data |-> d5, exc |-> "IndexError", final_capital |-> NaNM,
              cumulative_roi |-> NaNM]
        ELSE [data |-> d5, exc |-> "none", final_capital |-> cap[Len(cap)],
              cumulative_roi |-> CumulativeRoi(cap[Len(cap)], ic)]

\* ---- growth comparison (new_app.py) ---------------------------------------
Styles == {"Aggressive", "Moderate", "Passive"}

\* variant with the multipliers of Aggressive and Passive exchanged
style_multipliers_Exchanged(style) ==
    IF style = "Aggressive" THEN [num |-> 3, den |-> 4]
    ELSE IF style = "Moderate" THEN [num |-> 1, den |-> 1]
    ELSE [num |-> 3, den |-> 2]

\* style_multipliers = {'Aggressive': 1.5, 'Moderate': 1.0, 'Passive': 0.75}
style_multipliers(style) ==
    IF style = "Aggressive" THEN [num |-> 3, den |-> 2]
    ELSE IF style = "Moderate" THEN [num |-> 1, den |-> 1]
    ELSE [num |-> 3, den |-> 4]

GrowthColName(style) ==
    IF style = "Aggressive" THEN "Aggressive Growth"
    ELSE IF style = "Moderate" THEN "Moderate Growth"
    ELSE "Passive Growth"

\* (price / start_price) * amount * multiplier
Scaled(price, start_price, amount, mult) ==
    Q(price * amount * mult.num, start_price * mult.den)

\* ((growth - amount) / amount) * 100; amount 0 gives 0/0 = NaN
GrowthRoi(growth, amount) ==
    IF amount = 0 THEN NaNQ
    ELSE Q((growth.num - amount * growth.den) * 100, growth.den * amount)

\* variant that scales the style's existing column again when the style is
\* evaluated a second time
calculate_investment_growth_Accumulating(d, amount, style) ==
    LET close == d["Close"]
    IN  IF Len(close) = 0
        THEN [data |-> d, exc |-> "IndexError", growth |-> NaNQ, roi |-> NaNQ]
        ELSE IF style \notin Styles
        THEN [data |-> d, exc |-> "ValueError", growth |-> NaNQ, roi |-> NaNQ]
        ELSE LET start_price == close[1]
                 multiplier  == style_multipliers(style)
                 col         == GrowthColName(style)
                 trend       == [i \in 1..Len(close) |->
                                    IF col \in DOMAIN d
                                    THEN Q(d[col][i].num * multiplier.num,
                                           d[col][i].den * multiplier.den)
                                    ELSE Scaled(close[i], start_price, amount, multiplier)]
                 growth      == trend[Len(close)]
             IN  [data |-> SetCol(d, col, trend), exc |-> "none",
                  growth |-> growth, roi |-> GrowthRoi(growth, amount)]

\* calculate_investment_growth: iloc[0] is read before the style is validated
calculate_investment_growth(d, amount, style) ==
    LET close == d["Close"]
    IN  IF Len(close) = 0
        THEN [data |-> d, exc |-> "IndexError", growth |-> NaNQ, roi |-> NaNQ]
        ELSE IF style \notin Styles
        THEN [data |-> d, exc |-> "ValueError", growth |-> NaNQ, roi |-> NaNQ]
        ELSE LET start_price == close[1]
                 end_price   == close[Len(close)]
                 multiplier  == style_multipliers(style)
                 growth      == Scaled(end_price, start_price, amount, multiplier)
                 trend       == [i \in 1..Len(close) |->
                                    Scaled(close[i], start_price, amount, multiplier)]
             IN  [data |-> SetCol(d, GrowthColName(style), trend), exc |-> "none",
                  growth |-> growth, roi |-> GrowthRoi(growth, amount)]

\* ---- state machine ---------------------------------------------------------
Apps == {"new_app", "app", "app1"}

Strategies == {"Bollinger Bands", "SMA Crossover"}

\* style names passed by a direct caller: the three known ones and two others
StyleNames == Styles \cup {"Unknown", "moderate"}

\* all price series of 0..MaxBars bars with prices 1..MaxPrice
AllSeries == UNION {[1..n -> 1..MaxPrice] : n \in 0..MaxBars}

Capitals == {0 - 1000, 0, 1000}

\* window arguments of a direct caller
Windows == (0 - 1)..MaxWindow

\* no_of_std arguments of a direct caller: 0.5 and the default 2
StdMultipliers == {[num |-> 1, den |-> 2], [num |-> 2, den |-> 1]}

NoUse == [fn |-> "none", window |-> 0, no_of_std |-> [num |-> 0, den |-> 1],
          short_window |-> 0, long_window |-> 0]

NoResult == [fn |-> "none", exc |-> "none", returned |-> FALSE,
             final_capital |-> NaNM, cumulative_roi |-> NaNM,
             growth |-> NaNQ, roi |-> NaNQ]

Init ==
    /\ app \in Apps
    /\ cow \in (IF app = "new_app" THEN BOOLEAN ELSE {FALSE})
    /\ driver \in {"main", "direct"}
    /\ strategy \in Strategies
    /\ investment_style \in (IF driver = "main" THEN Styles ELSE {"Moderate"})
    \* new_app.py main: st.number_input(min_value=1000)
    /\ initial_capital \in (IF driver = "main" /\ app = "new_app"
                            THEN {c \in Capitals : c >= 1000} ELSE Capitals)
    /\ \E series \in AllSeries : data = [c \in {PriceCol(app)} |-> series]
    /\ params = NoParams
    /\ used = NoUse
    /\ pc = "start"
    /\ result = NoResult

Frame == UNCHANGED <<app, cow, driver, strategy, investment_style, initial_capital>>

\* the indicator call of the selected strategy with the given arguments
Indicators(window, no_of_std, short_window, long_window) ==
    LET r == IF strategy = "Bollinger Bands"
             THEN calculate_bollinger_bands(data, app, window, no_of_std)
             ELSE calculate_sma(data, app, short_window, long_window)
    IN  /\ data' = r.data
        /\ used' = IF strategy = "Bollinger Bands"
                   THEN [NoUse EXCEPT !.fn = "calculate_bollinger_bands",
                                      !.window = window, !.no_of_std = no_of_std]
                   ELSE [NoUse EXCEPT !.fn = "calculate_sma",
                                      !.short_window = short_window,
                                      !.long_window = long_window]
        /\ result' = [NoResult EXCEPT !.fn = used'.fn, !.exc = r.exc,
                                      !.returned = (r.exc = "none")]
        /\ pc' = IF r.exc = "none" THEN "indicators" ELSE "failed"

\* the strategy call of the selected strategy
Signal ==
    /\ data' = IF strategy = "Bollinger Bands"
               THEN apply_bollinger_strategy(data, app, cow)
               ELSE apply_sma_strategy(data, app, cow)
    /\ result' = [NoResult EXCEPT !.fn = "apply", !.returned = TRUE]
    /\ pc' = "signal"

\* the return simulation of app.py / app1.py
Simulate ==
    LET r == visualize_interactive(data, app, initial_capital)
    IN  /\ data' = r.data
        /\ result' = [NoResult EXCEPT !.fn = "visualize_interactive", !.exc = r.exc,
                                      !.returned = (r.exc = "none"),
                                      !.final_capital = r.final_capital,
                                      !.cumulative_roi = r.cumulative_roi]
        /\ pc' = IF r.exc = "none" THEN "done" ELSE "failed"

GrowthResult(r) ==
    [NoResult EXCEPT !.fn = "calculate_investment_growth", !.exc = r.exc,
                     !.returned = (r.exc = "none"),
                     !.growth = r.growth, !.roi = r.roi]

\* ---- main() of the three scripts ------------------------------------------
\* params = adjust_strategy_parameters(investment_style): first in app.py and
\* app1.py (after the empty-table check of app1.py), after the strategy in new_app.py
MainResolve ==
    /\ driver = "main"
    /\ pc = IF app = "new_app" THEN "signal" ELSE "start"
    /\ IF app = "app1" /\ NBars(data, app) = 0
       THEN /\ result' = [NoResult EXCEPT !.fn = "main", !.exc = "st.error"]
            /\ pc' = "done"
            /\ UNCHANGED params
       ELSE /\ params' = adjust_strategy_parameters(investment_style)
            /\ pc' = "resolved"
            /\ UNCHANGED result
    /\ UNCHANGED <<data, used>>
    /\ Frame

\* new_app.py calls calculate_bollinger_bands(data) / calculate_sma(data);
\* app.py and app1.py pass the fields of params
MainIndicators ==
    /\ driver = "main"
    /\ pc = IF app = "new_app" THEN "start" ELSE "resolved"
    /\ IF app = "new_app"
       THEN Indicators(DefaultWindow, DefaultNoOfStd, DefaultShortWindow, DefaultLongWindow)
       ELSE Indicators(params.bollinger_window, params.bollinger_std,
                       params.sma_short, params.sma_long)
    /\ UNCHANGED params
    /\ Frame

MainSignal ==
    /\ driver = "main"
    /\ pc = "indicators"
    /\ Signal
    /\ UNCHANGED <<params, used>>
    /\ Frame

\* visualize_interactive: the return simulation in app.py / app1.py, only
\* charts in new_app.py
MainVisualize ==
    /\ driver = "main"
    /\ pc = IF app = "new_app" THEN "resolved" ELSE "signal"
    /\ IF app = "new_app"
       THEN /\ pc' = "visualized"
            /\ UNCHANGED <<data, result>>
       ELSE Simulate
    /\ UNCHANGED <<params, used>>
    /\ Frame

\* new_app.py: for style in ["Aggressive", "Moderate", "Passive"]:
\*     data, growth, roi = calculate_investment_growth(data, initial_capital, style)
MainGrowth ==
    /\ driver = "main"
    /\ app = "new_app"
    /\ pc = "visualized"
    /\ LET r1 == calculate_investment_growth(data, initial_capital, "Aggressive")
           r2 == calculate_investment_growth(r1.data, initial_capital, "Moderate")
           r3 == calculate_investment_growth(r2.data, initial_capital, "Passive")
           r  == IF r1.exc # "none" THEN r1 ELSE IF r2.exc # "none" THEN r2 ELSE r3
       IN  /\ data' = r.data
           /\ result' = GrowthResult(r)
           /\ pc' = IF r.exc = "none" THEN "done" ELSE "failed"
    /\ UNCHANGED <<params, used>>
    /\ Frame

\* ---- the functions called directly ------------------------------------------
\* a caller follows the order of main: indicators, strategy, simulation
CallAdjust ==
    /\ driver = "direct"
    /\ pc = "start"
    /\ \E name \in StyleNames :
        /\ params' = adjust_strategy_parameters(name)
        /\ investment_style' = name
    /\ result' = [NoResult EXCEPT !.fn = "adjust_strategy_parameters", !.returned = TRUE]
    /\ pc' = "done"
    /\ UNCHANGED <<app, cow, driver, strategy, initial_capital, data, used>>

CallIndicators ==
    /\ driver = "direct"
    /\ pc = "start"
    /\ \E window \in Windows, no_of_std \in StdMultipliers,
          short_window \in Windows, long_window \in Windows :
        /\ strategy = "Bollinger Bands" => short_window = 0 /\ long_window = 0
        /\ strategy = "SMA Crossover" => window = 0 /\ no_of_std = DefaultNoOfStd
        /\ Indicators(window, no_of_std, short_window, long_window)
    /\ UNCHANGED params
    /\ Frame

CallSignal ==
    /\ driver = "direct"
    /\ pc = "indicators"
    /\ Signal
    /\ UNCHANGED <<params, used>>
    /\ Frame

CallSimulate ==
    /\ driver = "direct"
    /\ app # "new_app"
    /\ pc = "signal"
    /\ Simulate
    /\ UNCHANGED <<params, used>>
    /\ Frame

\* calculate_investment_growth with any style name: any number of times and
\* in any order on a table without indicator columns, or once after the
\* indicators and the strategy (main calls it three times after the strategy)
CallGrowth ==
    /\ driver = "direct"
    /\ app = "new_app"
    /\ pc \in {"start", "signal", "growth"}
    /\ \E name \in StyleNames :
        LET r == calculate_investment_growth(data, initial_capital, name)
        IN  /\ data' = r.data
            /\ investment_style' = name
            /\ result' = GrowthResult(r)
            /\ pc' = IF r.exc # "none" THEN "failed"
                     ELSE IF pc = "signal" THEN "done" ELSE "growth"
    /\ UNCHANGED <<app, cow, driver, strategy, initial_capital, params, used>>

Next ==
    \/ MainResolve
    \/ MainIndicators
    \/ MainSignal
    \/ MainVisualize
    \/ MainGrowth
    \/ CallAdjust
    \/ CallIndicators
    \/ CallSignal
    \/ CallSimulate
    \/ CallGrowth

Spec == Init /\ [][Next]_vars

\* ---- properties -----------------------------------------------------------
HasCol(c) == c \in DOMAIN data

N == NBars(data, app)

Price(i) == data[PriceCol(app)][i]

\* C1: after the return simulation the position of the first bar is 0, the
\* position of every later bar is the signal of the bar before it, and the
\* strategy return of bar i is the return of bar i times the signal of bar i-1
C1_PositionLagsSignal ==
    HasCol("Position") =>
        /\ N >= 1 => data["Position"][1] = 0 /\ data["Strategy_Returns"][1].nan
        /\ \A i \in 2..N :
            /\ data["Position"][i] = data["Signal"][i - 1]
            /\ data["Strategy_Returns"][i] = M(data["Signal"][i - 1] * data["Returns"][i].v)

\* a simulated series on which the lag matters: some bar has a non-zero return
\* and a non-zero signal that differs from the signal of the bar before
C1_Witness ==
    /\ HasCol("Position")
    /\ \E i \in 2..N :
        /\ data["Signal"][i] # 0
        /\ data["Signal"][i] # data["Signal"][i - 1]
        /\ data["Returns"][i].v # 0
        /\ data["Strategy_Returns"][i] # M(data["Signal"][i] * data["Returns"][i].v)

\* C2: after the return simulation of a series of at least two bars with a
\* positive initial capital, the first entries of the compounded return and of
\* the capital are defined, and the first capital is the initial capital
C2_CapitalStartsAtInitial ==
    (HasCol("Capital") /\ N >= 2 /\ initial_capital > 0) =>
        /\ ~data["Cumulative_Strategy_Returns"][1].nan
        /\ data["Capital"][1] = M(initial_capital * 1000)

EqBand(price, b) == ~b.nan /\ CmpBand(price, b) = 0

EqQ(a, b) == ~a.nan /\ ~b.nan /\ a.num * b.den = b.num * a.den

\* C3: every signal is -1, 0 or 1; it is 1 only below the lower band (short
\* mean above long mean), -1 only above the upper band (short mean below long
\* mean), and 0 on a bar whose price is on a band (whose means are equal)
C3_SignalDomainAndTies ==
    HasCol("Signal") =>
        \A i \in 1..N :
            /\ data["Signal"][i] \in {0 - 1, 0, 1}
            /\ strategy = "Bollinger Bands" =>
                /\ data["Signal"][i] = 1 => LtBand(Price(i), data["Lower Band"][i])
                /\ data["Signal"][i] = 0 - 1 => GtBand(Price(i), data["Upper Band"][i])
                /\ (EqBand(Price(i), data["Lower Band"][i])
                      \/ EqBand(Price(i), data["Upper Band"][i])) => data["Signal"][i] = 0
            /\ strategy = "SMA Crossover" =>
                /\ data["Signal"][i] = 1 => GtQ(data["SMA_Short"][i], data["SMA_Long"][i])
                /\ data["Signal"][i] = 0 - 1 => LtQ(data["SMA_Short"][i], data["SMA_Long"][i])
                /\ EqQ(data["SMA_Short"][i], data["SMA_Long"][i]) => data["Signal"][i] = 0

\* a band strategy result with a buy on one bar and, on another bar, a price
\* exactly on the lower band with signal 0
C3_Witness ==
    /\ HasCol("Signal")
    /\ strategy = "Bollinger Bands"
    /\ \E i \in 1..N, j \in 1..N :
        /\ data["Signal"][i] = 1
        /\ EqBand(Price(j), data["Lower Band"][j])
        /\ data["Signal"][j] = 0

\* the window whose warm-up leaves the indicator of the strategy undefined
WarmupWindow ==
    IF strategy = "Bollinger Bands" THEN used.window ELSE used.long_window

IndicatorUndefined(i) ==
    IF strategy = "Bollinger Bands"
    THEN data["Lower Band"][i].nan \/ data["Upper Band"][i].nan
    ELSE data["SMA_Long"][i].nan

\* C4: on every bar before the window is full the indicator is undefined, on
\* every bar with an undefined indicator the signal is 0, and after the return
\* simulation the position of the following bar is 0
C4_UndefinedIndicatorNoSignal ==
    HasCol("Signal") =>
        \A i \in 1..N :
            /\ i < WarmupWindow => IndicatorUndefined(i)
            /\ IndicatorUndefined(i) =>
                /\ data["Signal"][i] = 0
                /\ (HasCol("Position") /\ i + 1 <= N) => data["Position"][i + 1] = 0

\* a simulated crossover series with a warm-up of at least one bar, a short
\* mean defined during the warm-up, and a non-zero signal after it
C4_Witness ==
    /\ HasCol("Position")
    /\ strategy = "SMA Crossover"
    /\ used.long_window >= 2
    /\ used.short_window = 1
    /\ \E i \in 1..N : i >= used.long_window /\ data["Signal"][i] # 0

\* C5: in main, once the indicators are computed the parameter record of the
\* selected style has been resolved, and the indicator function was called
\* with the fields of that record
C5_MainUsesStyleParameters ==
    (driver = "main" /\ used.fn # "none") =>
        /\ params = adjust_strategy_parameters(investment_style)
        /\ used.fn = "calculate_bollinger_bands" =>
            /\ used.window = params.bollinger_window
            /\ used.no_of_std = params.bollinger_std
        /\ used.fn = "calculate_sma" =>
            /\ used.short_window = params.sma_short
            /\ used.long_window = params.sma_long

\* C6: the return simulation of a series of 0 or 1 bars fails with EmptySeries
\* and returns no final capital or ROI
C6_ShortSeriesRejected ==
    (result.fn = "visualize_interactive" /\ N < 2) =>
        result.exc = "EmptySeries" /\ ~result.returned

\* C7: the return simulation with a non-positive initial capital fails with
\* InvalidCapital and returns no ROI
C7_NonPositiveCapitalRejected ==
    (result.fn = "visualize_interactive" /\ initial_capital <= 0) =>
        result.exc = "InvalidCapital" /\ ~result.returned

IndicatorCols == {"SMA", "STD", "Upper Band", "Lower Band", "SMA_Short", "SMA_Long"}

InvalidWindows ==
    IF used.fn = "calculate_bollinger_bands" THEN used.window <= 0
    ELSE \/ used.short_window <= 0
         \/ used.long_window <= 0
         \/ used.short_window >= used.long_window

\* C8: an indicator call with a window <= 0, or a dual-mean call with
\* short_window >= long_window, fails with an invalid-parameter error (the
\* ValueError of the library counts as one) and leaves no indicator column
\* and no signal
C8_InvalidWindowsRejected ==
    (used.fn # "none" /\ InvalidWindows) =>
        /\ result.exc \in {"InvalidParameter", "ValueError"}
        /\ (DOMAIN data) \cap (IndicatorCols \cup {"Signal"}) = {}

ModerateRecord ==
    [bollinger_window |-> 20, bollinger_std |-> [num |-> 2, den |-> 1],
     sma_short |-> 50, sma_long |-> 200]

\* C9: a resolved parameter record has short window < long window, and the
\* record resolved for a name that is none of the three styles is the
\* Moderate record
C9_UnknownStyleIsModerate ==
    params # NoParams =>
        /\ params.sma_short < params.sma_long
        /\ investment_style \notin Styles => params = ModerateRecord

\* a direct call of adjust_strategy_parameters with an unknown name has returned
C9_Witness ==
    /\ result.fn = "adjust_strategy_parameters"
    /\ investment_style \in {"Unknown", "moderate"}
    /\ params = ModerateRecord

\* C10: a growth comparison called with a name that is none of the three
\* styles fails with the invalid-style ValueError, leaves the table as it
\* was and returns no growth or ROI
C10_InvalidStyleRejected ==
    [][(result'.fn = "calculate_investment_growth" /\ pc # "failed"
          /\ pc' \in {"growth", "failed"} /\ investment_style' \notin Styles)
       => (result'.exc = "ValueError" /\ ~result'.returned /\ data' = data)]_vars

\* C11: every call of a core operation (indicators, strategy, return
\* simulation, growth comparison) leaves the caller's table with the columns
\* and values it had before the call
C11_InputsUnchanged ==
    [][data' = data]_vars

\* the style of the last growth comparison: main ends its loop with Passive
LastGrowthStyle == IF driver = "main" THEN "Passive" ELSE investment_style

\* q is the rational num/den
SameQ(q, num, den) == ~q.nan /\ q.num * den = q.den * num

\* C12: whatever was called before (nothing, the indicators and a strategy,
\* other styles, the same style), every growth column of the table is
\* (price[i] / price[0]) * initial_capital * multiplier of its style over the
\* current price column, the growth returned last is the last entry of the
\* column of its style, and the ROI returned is (growth - capital) / capital * 100
C12_GrowthIndependentOfHistory ==
    /\ \A s \in Styles :
        HasCol(GrowthColName(s)) =>
            /\ Len(data[GrowthColName(s)]) = N
            /\ \A i \in 1..N :
                SameQ(data[GrowthColName(s)][i],
                      Price(i) * initial_capital * style_multipliers(s).num,
                      Price(1) * style_multipliers(s).den)
    /\ (result.fn = "calculate_investment_growth" /\ result.exc = "none") =>
        /\ HasCol(GrowthColName(LastGrowthStyle))
        /\ result.growth = data[GrowthColName(LastGrowthStyle)][N]
        /\ IF initial_capital = 0 THEN result.roi.nan
           ELSE SameQ(result.roi,
                      (result.growth.num - initial_capital * result.growth.den) * 100,
                      result.growth.den * initial_capital)

\* a growth comparison that ran after the indicators and a strategy with a
\* non-zero signal, on a series whose price moved, with a non-zero capital
C12_Witness ==
    /\ driver = "direct"
    /\ result.fn = "calculate_investment_growth"
    /\ result.exc = "none"
    /\ initial_capital # 0
    /\ HasCol("Signal")
    /\ \E i \in 1..N : data["Signal"][i] # 0
    /\ Price(N) # Price(1)
    /\ result.growth = data[GrowthColName(investment_style)][N]

\* the multipliers and the flat-series ROI the claim names, in percent
ClaimedMultiplier(s) ==
    IF s = "Aggressive" THEN [num |-> 3, den |-> 2]
    ELSE IF s = "Moderate" THEN [num |-> 1, den |-> 1]
    ELSE [num |-> 3, den |-> 4]

ClaimedFlatRoi(s) ==
    IF s = "Aggressive" THEN 50 ELSE IF s = "Moderate" THEN 0 ELSE 0 - 25

\* the first entry of the growth column of style s is capital * multiplier
TrendStartsScaled(s) ==
    SameQ(data[GrowthColName(s)][1],
          initial_capital * ClaimedMultiplier(s).num, ClaimedMultiplier(s).den)

\* the first entry equals the capital for Moderate and for no other style
TrendStartOnlyModerate(s) ==
    (data[GrowthColName(s)][1] = Q(initial_capital, 1)) <=> (s = "Moderate")

\* on a series whose last price is its first price the ROI returned last is
\* +50, 0 or -25 percent
FlatRoiAsClaimed ==
    (result.fn = "calculate_investment_growth" /\ result.exc = "none"
       /\ Price(N) = Price(1)) =>
        result.roi = Q(ClaimedFlatRoi(LastGrowthStyle), 1)

====
